---- MODULE Spec2Model ----
(***************************************************************************)
(* The request lifecycle of resdk.BaseHandler (base_handler.go).           *)
(*                                                                         *)
(* One BaseHandler value m is shared by NumReqs invocations of ServeHTTP,  *)
(* which run interleaved, one collaborator call per step.  Every value     *)
(* a collaborator returns is an object of its own: it carries the request  *)
(* it was made for and the call that made it, so that a value handed to    *)
(* the wrong place is visible.  calls[r] is the history of the             *)
(* collaborator calls invocation r has made, in order.                     *)
(***************************************************************************)
EXTENDS Integers, Sequences, FiniteSets, TLC

\* Number of ServeHTTP invocations sharing the handler.
NumReqs == 2

Reqs == 1 .. NumReqs

VARIABLES
    m,             \* the BaseHandler: one slot per collaborator
    pc,            \* pc[r]: where invocation r stands in ServeHTTP
    auth_details,  \* the locals of ServeHTTP, one copy per invocation
    err,
    in,
    verrors,
    out,
    authorizer,
    calls,         \* calls[r]: the collaborator calls made so far, in order
    w,             \* w[r]: what the http.ResponseWriter of invocation r was told
    base,          \* the BaseHandler given to NewJsonHandler, Nil when none was
    direct         \* a serializer value called directly by its owner

vars ==
    <<m, pc, auth_details, err, in, verrors, out, authorizer, calls, w, base,
      direct>>

----------------------------------------------------------------------------
(* Values *)

\* The nil interface value.
Nil == [kind |-> "nil"]

\* The *http.Request of invocation r.
Request(r) == [kind |-> "request", req |-> r]

\* The value Authenticate returns for invocation r: any value, nil included.
AuthContexts(r) == {Nil, [kind |-> "auth", req |-> r]}

\* An error value made by collaborator call `origin` of invocation r.
Error(origin, r) == [kind |-> "error", origin |-> origin, req |-> r]

\* The Inputable that Deserialize returns for invocation r.
Input(r) == [kind |-> "input", req |-> r]

\* A non-nil Outputable returned by Process; authorizable tells whether its
\* dynamic type has the method Authorize.
Output(r, authorizable) ==
    [kind |-> "output", req |-> r, authorizable |-> authorizable]

\* What a Processor can return as its first result: nil, or an Outputable
\* of either sort.
Outputs(r) == {Nil} \cup {Output(r, a) : a \in BOOLEAN}

\* A Serializable configured in slot `slot` of the handler.
Serializer(slot) == [kind |-> "serializer", slot |-> slot]

\* The names of the six Serializable fields of BaseHandler.
SerializerSlots ==
    {"SuccessSerializer", "AuthenticationErrorSerializer",
     "ValidationErrorSerializer", "ProcessingErrorSerializer",
     "NotFoundSerializer", "AuthorizationErrorSerializer"}

\* A BaseHandler with every mandatory slot set; the Authenticator is
\* `authenticator`, which is Nil when no authentication is needed.
BaseHandler(authenticator) ==
    [Authenticator |-> authenticator,
     Deserializer |-> [kind |-> "deserializer"],
     Processor |-> [kind |-> "processor"],
     SuccessSerializer |-> Serializer("SuccessSerializer"),
     AuthenticationErrorSerializer |-> Serializer("AuthenticationErrorSerializer"),
     ValidationErrorSerializer |-> Serializer("ValidationErrorSerializer"),
     ProcessingErrorSerializer |-> Serializer("ProcessingErrorSerializer"),
     NotFoundSerializer |-> Serializer("NotFoundSerializer"),
     AuthorizationErrorSerializer |-> Serializer("AuthorizationErrorSerializer")]

\* One entry of calls[r]: method `op` called on `on` with `arg`, returning
\* (ret, err).  typ records, for Process, whether the type of the Output
\* the Processor deals in has the method Authorize (also when it returned
\* nil); it is FALSE for the other calls.
Call(op, on, arg, ret, e, typ) ==
    [op |-> op, on |-> on, arg |-> arg, ret |-> ret, err |-> e, typ |-> typ]

----------------------------------------------------------------------------
(* The JSON serializers of json_serializer.go *)

\* The net/http status codes the package uses.
StatusOK == 200
StatusBadRequest == 400
StatusUnauthorized == 401
StatusForbidden == 403
StatusNotFound == 404
StatusInternalServerError == 500

\* errors.New(msg): an error that is no json.Marshaler.
ErrorsNew(msg) ==
    [kind |-> "error", origin |-> "errors.New", req |-> 0, msg |-> msg]

\* An error whose type also implements json.Marshaler, MarshalJSON
\* yielding the document doc.
MarshalerError(msg, doc) ==
    [kind |-> "error", origin |-> "json.Marshaler", req |-> 0, msg |-> msg,
     json |-> doc]

\* A Go string, as an example of a value that is no error.
StringValue(str) == [kind |-> "string", s |-> str]

\* map[string]interface{}{"error": str}
ErrorMap(str) == [kind |-> "map", error |-> str]

\* out.(error)
IsError(v) == v.kind = "error"

\* out.(json.Marshaler)
IsMarshaler(v) == v.kind = "error" /\ v.origin = "json.Marshaler"

\* out_err.Error(): the message of an error.  The collaborators' plain
\* errors carry one message per collaborator.
ErrorString(e) ==
    IF "msg" \in DOMAIN e THEN e.msg
    ELSE CASE e.origin = "ServeHTTP" -> "Not found"
           [] e.origin = "Authenticate" -> "bad credentials"
           [] e.origin = "Validate" -> "missing field X"
           [] e.origin = "Process" -> "db down"
           [] e.origin = "Authorize" -> "denied"

\* JSON documents.
JNull == [json |-> "null"]
JString(str) == [json |-> "string", s |-> str]
JObject(members) == [json |-> "object", members |-> members]
\* The encoding of the exported fields of a struct value.
JStruct(v) == [json |-> "struct", of |-> v]

\* json.Marshal(v).  A json.Marshaler encodes itself; the struct behind
\* errors.New has no exported field and encodes as {}.
Marshal(v) ==
    CASE v = Nil -> JNull
      [] v.kind = "error" /\ IsMarshaler(v) -> v.json
      [] v.kind = "error" /\ ~IsMarshaler(v) -> JObject(<< >>)
      [] v.kind = "map" -> JObject([error |-> JString(v.error)])
      [] v.kind = "string" -> JString(v.s)
      [] OTHER -> JStruct(v)

\* What a response writer is told.
HeaderSet(key, value) == [op |-> "Header.Set", key |-> key, value |-> value]
WriteHeader(code) == [op |-> "WriteHeader", code |-> code]
Write(body) == [op |-> "Write", body |-> body]

\* The serializer values.
JsonSerializer(code) == [kind |-> "JsonSerializer", StatusCode |-> code]
JsonErrorSerializer(code, error) ==
    [kind |-> "JsonErrorSerializer", StatusCode |-> code, Error |-> error]
JsonNotFoundSerializer(code, error) ==
    [kind |-> "JsonNotFoundSerializer", StatusCode |-> code, Error |-> error]

\* JsonSerializer.Serialize
JsonSerializerSerialize(j, o) ==
    LET out_b == Marshal(o) IN
    << HeaderSet("Content-Type", "application/json"),
       WriteHeader(j.StatusCode),
       Write(out_b) >>

\* The error is encoded as it is, without looking for its message.
JsonErrorSerializerSerializeRaw(j, o) ==
    LET out1 == IF j.Error # Nil THEN j.Error ELSE o
        out_b == Marshal(out1)
    IN  << HeaderSet("Content-Type", "application/json"),
           WriteHeader(j.StatusCode),
           Write(out_b) >>

\* JsonErrorSerializer.Serialize
JsonErrorSerializerSerialize(j, o) ==
    LET out1 == IF j.Error # Nil THEN j.Error ELSE o
        out_obj == IF IsError(out1) /\ ~IsMarshaler(out1)
                   THEN ErrorMap(ErrorString(out1))
                   ELSE out1
        out_b == Marshal(out_obj)
    IN  << HeaderSet("Content-Type", "application/json"),
           WriteHeader(j.StatusCode),
           Write(out_b) >>

\* The configured StatusCode and Error are left in place.
JsonNotFoundSerializerSerializeAsConfigured(j, o) ==
    JsonErrorSerializerSerialize(j, o)

\* JsonNotFoundSerializer.Serialize: it sets StatusCode and Error on its
\* own copy j of the serializer and calls the embedded Serialize.
JsonNotFoundSerializerSerialize(j, o) ==
    LET j1 == [j EXCEPT !.StatusCode = StatusNotFound,
                        !.Error = ErrorsNew("Not found")]
    IN  JsonErrorSerializerSerialize(j1, o)

\* The methods have pointer receivers: what JsonNotFoundSerializer.Serialize
\* assigns stays in the serializer.
ReceiverAfterSerializePointer(s) ==
    IF s.kind = "JsonNotFoundSerializer"
    THEN [s EXCEPT !.StatusCode = StatusNotFound, !.Error = ErrorsNew("Not found")]
    ELSE s

\* The serializer value its owner holds, after a Serialize call on it: the
\* three methods have value receivers and work on a copy.
ReceiverAfterSerialize(s) == s

\* s.Serialize(o, w, r) through the Serializable interface: what w is told.
\* What a Serializable of another package writes is its own affair.
SerializeOn(s, o) ==
    CASE s.kind = "JsonSerializer" -> JsonSerializerSerialize(s, o)
      [] s.kind = "JsonErrorSerializer" -> JsonErrorSerializerSerialize(s, o)
      [] s.kind = "JsonNotFoundSerializer" -> JsonNotFoundSerializerSerialize(s, o)
      [] OTHER -> << [op |-> "Serialize", by |-> s, value |-> o] >>

\* No direct call is under way.
NoDirect == [kind |-> "none"]

\* No handler has been made yet.
NoHandler == [kind |-> "none"]

----------------------------------------------------------------------------
(* ServeHTTP *)

\* The result of a panicking type assertion.
Panic == [kind |-> "panic"]

\* Whether the dynamic type of o has the method Authorize; the nil
\* interface value has no dynamic type.
ImplementsAuthorizable(o) == o # Nil /\ o.authorizable

\* GetAuthorizer: the single-valued assertion  _ = o.(Authorizable)  of its
\* first line panics when the assertion is false; then comes the two-valued
\* assertion, with nil returned when it is false.
GetAuthorizer(o) ==
    IF ~ImplementsAuthorizable(o) THEN Panic
    ELSE IF ImplementsAuthorizable(o) THEN o
    ELSE Nil

\* var auth_details interface{} = nil
InitialAuthDetails == Nil

\* A handler that authenticates whether or not an Authenticator is set.
AuthenticatorSetAlways(h) == TRUE

\* if m.Authenticator != nil
AuthenticatorSet(h) == h.Authenticator # Nil

\* Authenticate's error is not looked at.
AfterAuthenticateUnchecked(e) == "Deserialize"

\* After Authenticate: the error branch calls the
\* AuthenticationErrorSerializer, otherwise on to Deserialize.
AfterAuthenticate(e) ==
    IF e # Nil THEN "AuthenticationErrorSerializer" ELSE "Deserialize"

\* Validate's error is not looked at.
AfterValidateUnchecked(v) == "Process"

\* After Validate: the error branch calls the ValidationErrorSerializer.
AfterValidate(v) ==
    IF v # Nil THEN "ValidationErrorSerializer" ELSE "Process"

\* The nil Output is looked at before the error.
AfterProcessNilFirst(o, e) ==
    IF o = Nil THEN "NotFoundSerializer"
    ELSE IF e # Nil THEN "ProcessingErrorSerializer"
    ELSE "GetAuthorizer"

\* After Process: err first, then out == nil, else on to GetAuthorizer.
AfterProcess(o, e) ==
    IF e # Nil THEN "ProcessingErrorSerializer"
    ELSE IF o = Nil THEN "NotFoundSerializer"
    ELSE "GetAuthorizer"

\* err = errors.New("Not found"): made by ServeHTTP itself.
NotFoundError(r) == Error("ServeHTTP", r)

\* No error is made on the not-found branch: err stays as Process left it.
ErrAfterProcessAsReturned(r, o, e) == e

\* The value of err after the Process step.
ErrAfterProcess(r, o, e) ==
    IF e = Nil /\ o = Nil THEN NotFoundError(r) ELSE e

\* After GetAuthorizer(out).
AfterGetAuthorizer(a) ==
    IF a = Panic THEN "Panicked"
    ELSE IF a # Nil THEN "Authorize"
    ELSE "SuccessSerializer"

\* Authorize's error is not looked at.
AfterAuthorizeUnchecked(e) == "SuccessSerializer"

\* After Authorize.
AfterAuthorize(e) ==
    IF e # Nil THEN "AuthorizationErrorSerializer" ELSE "SuccessSerializer"

\* Authorize is given the zero value instead of the local auth_details, as
\* when the local is shadowed inside the if block of Authenticate.
AuthorizeArgShadowed(r) == Nil

\* auth_details is kept in one place for all invocations, as a field of the
\* handler would be: Authorize is given what another invocation left there.
AuthorizeArgShared(r) == auth_details[CHOOSE q \in Reqs : q # r]

\* authorizer.Authorize(auth_details)
AuthorizeArg(r) == auth_details[r]

\* Every error serializer is given err, the validation one too.
SerializeArgErr(r, slot) ==
    IF slot = "SuccessSerializer" THEN out[r] ELSE err[r]

\* err and verrors are kept in one place for all invocations: an error
\* serializer is given what another invocation left there.
SerializeArgShared(r, slot) ==
    LET q == CHOOSE x \in Reqs : x # r IN
    CASE slot = "ValidationErrorSerializer" -> verrors[q]
      [] slot = "SuccessSerializer" -> out[r]
      [] OTHER -> err[q]

\* The value each Serialize call of ServeHTTP is given.
SerializeArg(r, slot) ==
    CASE slot = "AuthenticationErrorSerializer" -> err[r]
      [] slot = "ValidationErrorSerializer" -> verrors[r]
      [] slot = "ProcessingErrorSerializer" -> err[r]
      [] slot = "NotFoundSerializer" -> err[r]
      [] slot = "AuthorizationErrorSerializer" -> err[r]
      [] slot = "SuccessSerializer" -> out[r]

\* The return after the ValidationErrorSerializer call is missing: the
\* handler goes on to Process.
ReturnedFallThrough(slot) ==
    CASE slot = "AuthenticationErrorSerializer" -> "AuthnError"
      [] slot = "ValidationErrorSerializer" -> "Process"
      [] slot = "ProcessingErrorSerializer" -> "ProcessingError"
      [] slot = "NotFoundSerializer" -> "NotFound"
      [] slot = "AuthorizationErrorSerializer" -> "AuthzError"
      [] slot = "SuccessSerializer" -> "Success"

\* Every Serialize call is followed by return: the outcome of the request.
Returned(slot) ==
    CASE slot = "AuthenticationErrorSerializer" -> "AuthnError"
      [] slot = "ValidationErrorSerializer" -> "ValidationError"
      [] slot = "ProcessingErrorSerializer" -> "ProcessingError"
      [] slot = "NotFoundSerializer" -> "NotFound"
      [] slot = "AuthorizationErrorSerializer" -> "AuthzError"
      [] slot = "SuccessSerializer" -> "Success"

Outcomes ==
    {"AuthnError", "ValidationError", "ProcessingError", "NotFound",
     "AuthzError", "Success"}

Init ==
    /\ m \in {BaseHandler(a) : a \in {Nil, [kind |-> "authenticator"]}}
    /\ pc = [r \in Reqs |-> "Received"]
    /\ auth_details = [r \in Reqs |-> InitialAuthDetails]
    /\ err = [r \in Reqs |-> Nil]
    /\ in = [r \in Reqs |-> Nil]
    /\ verrors = [r \in Reqs |-> Nil]
    /\ out = [r \in Reqs |-> Nil]
    /\ authorizer = [r \in Reqs |-> Nil]
    /\ calls = [r \in Reqs |-> << >>]
    /\ w = [r \in Reqs |-> << >>]
    /\ base = Nil
    /\ direct = NoDirect

\* auth_details, err = m.Authenticator.Authenticate(r)
Authenticate(r) ==
    /\ pc[r] = "Received"
    /\ AuthenticatorSet(m)
    /\ \E a \in AuthContexts(r), e \in {Nil, Error("Authenticate", r)} :
        /\ auth_details' = [auth_details EXCEPT ![r] = a]
        /\ err' = [err EXCEPT ![r] = e]
        /\ calls' = [calls EXCEPT ![r] =
               Append(@, Call("Authenticate", m.Authenticator, Request(r), a, e, FALSE))]
        /\ pc' = [pc EXCEPT ![r] = AfterAuthenticate(e)]
    /\ UNCHANGED <<m, in, verrors, out, authorizer, w, base, direct>>

\* in := m.Deserializer.Deserialize(r), reached at once when no
\* Authenticator is set.
Deserialize(r) ==
    /\ \/ pc[r] = "Received" /\ ~AuthenticatorSet(m)
       \/ pc[r] = "Deserialize"
    /\ in' = [in EXCEPT ![r] = Input(r)]
    /\ calls' = [calls EXCEPT ![r] =
           Append(@, Call("Deserialize", m.Deserializer, Request(r), Input(r), Nil, FALSE))]
    /\ pc' = [pc EXCEPT ![r] = "Validate"]
    /\ UNCHANGED <<m, auth_details, err, verrors, out, authorizer, w, base, direct>>

\* verrors := in.Validate()
Validate(r) ==
    /\ pc[r] = "Validate"
    /\ \E v \in {Nil, Error("Validate", r)} :
        /\ verrors' = [verrors EXCEPT ![r] = v]
        /\ calls' = [calls EXCEPT ![r] =
               Append(@, Call("Validate", in[r], Nil, Nil, v, FALSE))]
        /\ pc' = [pc EXCEPT ![r] = AfterValidate(v)]
    /\ UNCHANGED <<m, auth_details, err, in, out, authorizer, w, base, direct>>

\* out, err := m.Processor.Process(in), and err = errors.New("Not found")
\* on the not-found branch.
Process(r) ==
    /\ pc[r] = "Process"
    /\ \E o \in Outputs(r), e \in {Nil, Error("Process", r)}, typ \in BOOLEAN :
        /\ o # Nil => typ = o.authorizable
        /\ out' = [out EXCEPT ![r] = o]
        /\ err' = [err EXCEPT ![r] = ErrAfterProcess(r, o, e)]
        /\ calls' = [calls EXCEPT ![r] =
               Append(@, Call("Process", m.Processor, in[r], o, e, typ))]
        /\ pc' = [pc EXCEPT ![r] = AfterProcess(o, e)]
    /\ UNCHANGED <<m, auth_details, in, verrors, authorizer, w, base, direct>>

\* authorizer := GetAuthorizer(out)
CallGetAuthorizer(r) ==
    /\ pc[r] = "GetAuthorizer"
    /\ LET a == GetAuthorizer(out[r]) IN
        /\ authorizer' = [authorizer EXCEPT ![r] = IF a = Panic THEN @ ELSE a]
        /\ pc' = [pc EXCEPT ![r] = AfterGetAuthorizer(a)]
    /\ UNCHANGED <<m, auth_details, err, in, verrors, out, calls, w, base, direct>>

\* err = authorizer.Authorize(auth_details)
Authorize(r) ==
    /\ pc[r] = "Authorize"
    /\ \E e \in {Nil, Error("Authorize", r)} :
        /\ err' = [err EXCEPT ![r] = e]
        /\ calls' = [calls EXCEPT ![r] =
               Append(@, Call("Authorize", authorizer[r], AuthorizeArg(r), Nil, e, FALSE))]
        /\ pc' = [pc EXCEPT ![r] = AfterAuthorize(e)]
    /\ UNCHANGED <<m, auth_details, in, verrors, out, authorizer, w, base, direct>>

\* m.<slot>.Serialize(<value>, w, r); return
Serialize(r) ==
    /\ pc[r] \in SerializerSlots
    /\ calls' = [calls EXCEPT ![r] =
           Append(@, Call("Serialize", m[pc[r]], SerializeArg(r, pc[r]), Nil, Nil, FALSE))]
    /\ w' = [w EXCEPT ![r] = @ \o SerializeOn(m[pc[r]], SerializeArg(r, pc[r]))]
    /\ m' = [m EXCEPT ![pc[r]] = ReceiverAfterSerialize(@)]
    /\ pc' = [pc EXCEPT ![r] = Returned(pc[r])]
    /\ UNCHANGED <<auth_details, err, in, verrors, out, authorizer, base, direct>>

Next ==
    \E r \in Reqs :
        \/ Authenticate(r)
        \/ Deserialize(r)
        \/ Validate(r)
        \/ Process(r)
        \/ CallGetAuthorizer(r)
        \/ Authorize(r)
        \/ Serialize(r)

Spec == Init /\ [][Next]_vars

----------------------------------------------------------------------------
(* JsonHandler: NewJsonHandler and setDefaults *)

\* The defaults for authentication and authorization failures are swapped.
DefaultSerializerSwapped(slot) ==
    CASE slot = "SuccessSerializer" -> JsonSerializer(StatusOK)
      [] slot = "DeserializationErrorSerializer" ->
             JsonErrorSerializer(StatusBadRequest, Nil)
      [] slot = "ValidationErrorSerializer" ->
             JsonErrorSerializer(StatusBadRequest, Nil)
      [] slot = "AuthenticationErrorSerializer" ->
             JsonErrorSerializer(StatusForbidden, Nil)
      [] slot = "ProcessingErrorSerializer" ->
             JsonErrorSerializer(StatusInternalServerError, Nil)
      [] slot = "NotFoundSerializer" -> JsonErrorSerializer(StatusNotFound, Nil)
      [] slot = "AuthorizationErrorSerializer" ->
             JsonErrorSerializer(StatusUnauthorized, Nil)

\* The serializer setDefaults puts in a slot it finds nil.
DefaultSerializer(slot) ==
    CASE slot = "SuccessSerializer" -> JsonSerializer(StatusOK)
      [] slot = "DeserializationErrorSerializer" ->
             JsonErrorSerializer(StatusBadRequest, Nil)
      [] slot = "ValidationErrorSerializer" ->
             JsonErrorSerializer(StatusBadRequest, Nil)
      [] slot = "AuthenticationErrorSerializer" ->
             JsonErrorSerializer(StatusUnauthorized, Nil)
      [] slot = "ProcessingErrorSerializer" ->
             JsonErrorSerializer(StatusInternalServerError, Nil)
      [] slot = "NotFoundSerializer" -> JsonErrorSerializer(StatusNotFound, Nil)
      [] slot = "AuthorizationErrorSerializer" ->
             JsonErrorSerializer(StatusForbidden, Nil)

\* Every slot is given its default, set or not.
setDefaultsOverwrite(j) ==
    [Authenticator |-> j.Authenticator,
     Deserializer |-> j.Deserializer,
     Processor |-> j.Processor,
     SuccessSerializer |-> DefaultSerializer("SuccessSerializer"),
     DeserializationErrorSerializer |->
         DefaultSerializer("DeserializationErrorSerializer"),
     ValidationErrorSerializer |-> DefaultSerializer("ValidationErrorSerializer"),
     AuthenticationErrorSerializer |->
         DefaultSerializer("AuthenticationErrorSerializer"),
     ProcessingErrorSerializer |-> DefaultSerializer("ProcessingErrorSerializer"),
     NotFoundSerializer |-> DefaultSerializer("NotFoundSerializer"),
     AuthorizationErrorSerializer |->
         DefaultSerializer("AuthorizationErrorSerializer")]

\* JsonHandler.setDefaults: one  if j.X == nil { j.X = default }  per slot.
setDefaults(j) ==
    LET Filled(slot) == IF j[slot] = Nil THEN DefaultSerializer(slot) ELSE j[slot]
    IN  [Authenticator |-> j.Authenticator,
         Deserializer |-> j.Deserializer,
         Processor |-> j.Processor,
         SuccessSerializer |-> Filled("SuccessSerializer"),
         DeserializationErrorSerializer |-> Filled("DeserializationErrorSerializer"),
         ValidationErrorSerializer |-> Filled("ValidationErrorSerializer"),
         AuthenticationErrorSerializer |-> Filled("AuthenticationErrorSerializer"),
         ProcessingErrorSerializer |-> Filled("ProcessingErrorSerializer"),
         NotFoundSerializer |-> Filled("NotFoundSerializer"),
         AuthorizationErrorSerializer |-> Filled("AuthorizationErrorSerializer")]

\* JsonHandler{BaseHandler: b}: a copy of the fields of b.  setDefaults also
\* names a field DeserializationErrorSerializer, which BaseHandler does not
\* declare in base_handler.go and ServeHTTP never reads: no BaseHandler a
\* caller builds sets it, so it is nil in the copy.
JsonHandler(b) ==
    [Authenticator |-> b.Authenticator,
     Deserializer |-> b.Deserializer,
     Processor |-> b.Processor,
     SuccessSerializer |-> b.SuccessSerializer,
     DeserializationErrorSerializer |-> Nil,
     ValidationErrorSerializer |-> b.ValidationErrorSerializer,
     AuthenticationErrorSerializer |-> b.AuthenticationErrorSerializer,
     ProcessingErrorSerializer |-> b.ProcessingErrorSerializer,
     NotFoundSerializer |-> b.NotFoundSerializer,
     AuthorizationErrorSerializer |-> b.AuthorizationErrorSerializer]

\* NewJsonHandler(base)
NewJsonHandler(b) == setDefaults(JsonHandler(b))

\* What a caller may leave or put in a Serializable slot of the BaseHandler
\* it hands to NewJsonHandler: nothing, a Serializable of its own, or a
\* serializer of this package.
SlotChoices(slot) ==
    {Nil, Serializer(slot)}
        \cup (IF slot = "NotFoundSerializer"
              THEN {JsonNotFoundSerializer(0, Nil)} ELSE {})
        \cup (IF slot = "ProcessingErrorSerializer"
              THEN {JsonErrorSerializer(503, ErrorsNew("unavailable"))} ELSE {})

\* The BaseHandler values handed to NewJsonHandler.
JsonBases ==
    {[Authenticator |-> a,
      Deserializer |-> [kind |-> "deserializer"],
      Processor |-> [kind |-> "processor"],
      SuccessSerializer |-> s1,
      AuthenticationErrorSerializer |-> s2,
      ValidationErrorSerializer |-> s3,
      ProcessingErrorSerializer |-> s4,
      NotFoundSerializer |-> s5,
      AuthorizationErrorSerializer |-> s6] :
        a \in {Nil, [kind |-> "authenticator"]},
        s1 \in SlotChoices("SuccessSerializer"),
        s2 \in SlotChoices("AuthenticationErrorSerializer"),
        s3 \in SlotChoices("ValidationErrorSerializer"),
        s4 \in SlotChoices("ProcessingErrorSerializer"),
        s5 \in SlotChoices("NotFoundSerializer"),
        s6 \in SlotChoices("AuthorizationErrorSerializer")}

\* The invocations served by the JsonHandler.
JsonReqs == {1}

\* A caller holds a BaseHandler and has not yet made the JsonHandler: no
\* request can be handed to it.
InitJson ==
    /\ base \in JsonBases
    /\ m = NoHandler
    /\ pc = [r \in Reqs |-> "Unserved"]
    /\ auth_details = [r \in Reqs |-> InitialAuthDetails]
    /\ err = [r \in Reqs |-> Nil]
    /\ in = [r \in Reqs |-> Nil]
    /\ verrors = [r \in Reqs |-> Nil]
    /\ out = [r \in Reqs |-> Nil]
    /\ authorizer = [r \in Reqs |-> Nil]
    /\ calls = [r \in Reqs |-> << >>]
    /\ w = [r \in Reqs |-> << >>]
    /\ direct = NoDirect

\* m := NewJsonHandler(base); base is passed by value.  From now on the
\* requests of JsonReqs are handed to m.
CallNewJsonHandler ==
    /\ m = NoHandler
    /\ m' = NewJsonHandler(base)
    /\ pc' = [r \in Reqs |-> IF r \in JsonReqs THEN "Received" ELSE pc[r]]
    /\ UNCHANGED <<auth_details, err, in, verrors, out, authorizer, calls,
                   w, base, direct>>

\* m.setDefaults() once more, on the handler NewJsonHandler returned.
CallSetDefaults ==
    /\ m # NoHandler
    /\ m' = setDefaults(m)
    /\ UNCHANGED <<pc, auth_details, err, in, verrors, out, authorizer, calls,
                   w, base, direct>>

\* The JsonHandler and its use: ServeHTTP is promoted from the embedded
\* BaseHandler, so the JsonHandler serves a request by the same steps.
NextJson ==
    \E r \in JsonReqs :
        \/ CallNewJsonHandler
        \/ CallSetDefaults
        \/ Authenticate(r)
        \/ Deserialize(r)
        \/ Validate(r)
        \/ Process(r)
        \/ CallGetAuthorizer(r)
        \/ Authorize(r)
        \/ Serialize(r)

SpecJson == InitJson /\ [][NextJson]_vars

----------------------------------------------------------------------------
(* The JSON serializers called on their own *)

\* How many Serialize calls are made on one serializer value.
MaxCalls == 2

\* The serializer values a caller holds: the three types, with and without
\* an Error override, and with StatusCodes other than the type's usual one.
DirectSerializers ==
    {JsonSerializer(StatusOK),
     JsonErrorSerializer(StatusBadRequest, Nil),
     JsonErrorSerializer(StatusInternalServerError, ErrorsNew("unavailable")),
     JsonErrorSerializer(StatusForbidden,
                         MarshalerError("quota", JObject([code |-> JString("E42")]))),
     JsonErrorSerializer(StatusUnauthorized, StringValue("maintenance")),
     JsonNotFoundSerializer(0, Nil),
     JsonNotFoundSerializer(StatusNotFound, Nil),
     JsonNotFoundSerializer(StatusInternalServerError, ErrorsNew("gone"))}

\* The values handed to Serialize: Outputable has no method, so any value
\* goes: nil, a plain error, an error that is a json.Marshaler, a string,
\* a struct.
DirectValues ==
    {Nil,
     ErrorsNew("db down"),
     MarshalerError("quota", JObject([code |-> JString("E42")])),
     StringValue("oops"),
     Output(1, FALSE)}

\* A caller holds the serializer value direct.j and has called nothing yet.
InitDirect ==
    /\ \E j \in DirectSerializers :
           direct = [kind |-> "direct", j |-> j, responses |-> << >>]
    /\ m = NoHandler
    /\ base = Nil
    /\ pc = [r \in Reqs |-> "Unserved"]
    /\ auth_details = [r \in Reqs |-> InitialAuthDetails]
    /\ err = [r \in Reqs |-> Nil]
    /\ in = [r \in Reqs |-> Nil]
    /\ verrors = [r \in Reqs |-> Nil]
    /\ out = [r \in Reqs |-> Nil]
    /\ authorizer = [r \in Reqs |-> Nil]
    /\ calls = [r \in Reqs |-> << >>]
    /\ w = [r \in Reqs |-> << >>]

\* direct.j.Serialize(o, w, r) with a fresh response writer w: what the
\* writer was told is kept with the value handed in.
DirectSerialize ==
    /\ direct # NoDirect
    /\ Len(direct.responses) < MaxCalls
    /\ \E o \in DirectValues :
           direct' = [direct EXCEPT
                        !.responses = Append(@, [out |-> o,
                                                 w |-> SerializeOn(direct.j, o)]),
                        !.j = ReceiverAfterSerialize(@)]
    /\ UNCHANGED <<m, pc, auth_details, err, in, verrors, out, authorizer,
                   calls, w, base>>

NextDirect == DirectSerialize

SpecSerializers == InitDirect /\ [][NextDirect]_vars

----------------------------------------------------------------------------
(* ServeHTTP run on its own *)

\* ServeHTTP of handler h run from its first line to its end for request r,
\* with nothing else going on, the collaborators returning what res says:
\* (res.a, res.ae) from Authenticate, res.v from Validate, (res.o, res.pe)
\* from Process (res.typ as in Call) and res.ze from Authorize.  It yields
\* the calls made, what the response writer was told and where it ended.
ServeHTTPAlone(h, r, res) ==
    LET Ser(slot, value) ==
            Call("Serialize", h[slot], value, Nil, Nil, FALSE)
        End(cs, slot, value, outcome) ==
            [calls |-> Append(cs, Ser(slot, value)),
             w |-> SerializeOn(h[slot], value),
             pc |-> outcome]
        authenticated == h.Authenticator # Nil
        c1 == IF authenticated
              THEN << Call("Authenticate", h.Authenticator, Request(r),
                           res.a, res.ae, FALSE) >>
              ELSE << >>
        details == IF authenticated THEN res.a ELSE Nil
        input == Input(r)
        c2 == c1 \o << Call("Deserialize", h.Deserializer, Request(r), input,
                            Nil, FALSE),
                       Call("Validate", input, Nil, Nil, res.v, FALSE) >>
        c3 == Append(c2, Call("Process", h.Processor, input, res.o, res.pe,
                              res.typ))
        c4 == Append(c3, Call("Authorize", res.o, details, Nil, res.ze, FALSE))
    IN  IF authenticated /\ res.ae # Nil
            THEN End(c1, "AuthenticationErrorSerializer", res.ae, "AuthnError")
        ELSE IF res.v # Nil
            THEN End(c2, "ValidationErrorSerializer", res.v, "ValidationError")
        ELSE IF res.pe # Nil
            THEN End(c3, "ProcessingErrorSerializer", res.pe, "ProcessingError")
        ELSE IF res.o = Nil
            THEN End(c3, "NotFoundSerializer", Error("ServeHTTP", r), "NotFound")
        ELSE IF ~res.o.authorizable
            THEN [calls |-> c3, w |-> << >>, pc |-> "Panicked"]
        ELSE IF res.ze # Nil
            THEN End(c4, "AuthorizationErrorSerializer", res.ze, "AuthzError")
        ELSE End(c4, "SuccessSerializer", res.o, "Success")

----------------------------------------------------------------------------
(* What the history of an invocation says *)

\* The positions in calls[r] of the calls of method op.
CallsOf(r, op) == {i \in DOMAIN calls[r] : calls[r][i].op = op}

\* The Serializable slot the results in calls[r] ask for: that of the first
\* failing phase in the order authentication, validation, processing error,
\* not found, authorization, and else the success slot.
ExpectedSlot(r) ==
    IF \E i \in CallsOf(r, "Authenticate") : calls[r][i].err # Nil
        THEN "AuthenticationErrorSerializer"
    ELSE IF \E i \in CallsOf(r, "Validate") : calls[r][i].err # Nil
        THEN "ValidationErrorSerializer"
    ELSE IF \E i \in CallsOf(r, "Process") : calls[r][i].err # Nil
        THEN "ProcessingErrorSerializer"
    ELSE IF \E i \in CallsOf(r, "Process") : calls[r][i].ret = Nil
        THEN "NotFoundSerializer"
    ELSE IF \E i \in CallsOf(r, "Authorize") : calls[r][i].err # Nil
        THEN "AuthorizationErrorSerializer"
    ELSE "SuccessSerializer"

\* The invocation is over (it returned or it unwound).
Over(r) ==
    pc[r] \in {"AuthnError", "ValidationError", "ProcessingError", "NotFound",
               "AuthzError", "Success", "Panicked"}

\* After call i of invocation r nothing happens but one Serialize call on
\* the Serializable of `slot`, given `value`, and that call is made by the
\* time the invocation is over.
StopsWith(r, i, slot, value) ==
    /\ Len(calls[r]) <= i + 1
    /\ Len(calls[r]) = i + 1 =>
           calls[r][i + 1] = [op |-> "Serialize", on |-> m[slot], arg |-> value,
                              ret |-> Nil, err |-> Nil, typ |-> FALSE]
    /\ Over(r) => Len(calls[r]) = i + 1 /\ pc[r] # "Panicked"

\* The place of each collaborator call in the order of the lifecycle.
Rank(op) ==
    CASE op = "Authenticate" -> 1
      [] op = "Deserialize" -> 2
      [] op = "Validate" -> 3
      [] op = "Process" -> 4
      [] op = "Authorize" -> 5
      [] op = "Serialize" -> 6

----------------------------------------------------------------------------
(* The claims *)

\* C1: an invocation of ServeHTTP that is over has invoked exactly one of
\* the six Serializers, exactly once, and it is that of the first failing
\* phase in the order authentication, validation, processing error, not
\* found, authorization, or else the success Serializer.
C1_ExactlyOneSerializer ==
    \A r \in Reqs :
        Over(r) =>
            /\ Cardinality(CallsOf(r, "Serialize")) = 1
            /\ \A i \in CallsOf(r, "Serialize") :
                   calls[r][i].on = m[ExpectedSlot(r)]

\* C2: when Process returned a non-nil Output with a nil error and the
\* Output has no method Authorize, the invocation ends with the Success
\* Serializer given that Output, with no Authorize call and no other
\* Serialize call.
C2_PlainOutputSucceeds ==
    \A r \in Reqs : \A i \in CallsOf(r, "Process") :
        (calls[r][i].ret # Nil /\ calls[r][i].err = Nil
            /\ ~calls[r][i].ret.authorizable) =>
            /\ CallsOf(r, "Authorize") = {}
            /\ StopsWith(r, i, "SuccessSerializer", calls[r][i].ret)

\* C3: with the Authenticator unset, Authenticate is never called, the
\* Authentication-Error Serializer is never invoked, and every Authorize
\* call is given nil.
C3_NoAuthenticator ==
    m.Authenticator = Nil =>
        \A r \in Reqs :
            /\ CallsOf(r, "Authenticate") = {}
            /\ \A i \in CallsOf(r, "Serialize") :
                   calls[r][i].on # m.AuthenticationErrorSerializer
            /\ \A i \in CallsOf(r, "Authorize") : calls[r][i].arg = Nil

\* C3 witness: without Authenticator an Output was authorized and served.
C3_Witness ==
    /\ m.Authenticator = Nil
    /\ \E r \in Reqs : CallsOf(r, "Authorize") # {} /\ pc[r] = "Success"

\* C4: when Authenticate returned an error, the only call after it is the
\* Serialize of the Authentication-Error Serializer with that error:
\* Deserialize, Validate, Process, Authorize and the other Serializers are
\* never called.
C4_AuthenticationErrorStops ==
    \A r \in Reqs : \A i \in CallsOf(r, "Authenticate") :
        calls[r][i].err # Nil =>
            /\ i = 1
            /\ StopsWith(r, i, "AuthenticationErrorSerializer", calls[r][i].err)

\* C4 witness: an invocation ended as an authentication failure.
C4_Witness ==
    \E r \in Reqs :
        /\ pc[r] = "AuthnError"
        /\ m.Authenticator # Nil
        /\ calls[r][1].op = "Authenticate" /\ calls[r][1].err # Nil

\* C5: when Validate returned an error, the only call after it is the
\* Serialize of the Validation-Error Serializer with that error: Process
\* and Authorize are never called.
C5_ValidationErrorStops ==
    \A r \in Reqs : \A i \in CallsOf(r, "Validate") :
        calls[r][i].err # Nil =>
            /\ CallsOf(r, "Process") = {}
            /\ StopsWith(r, i, "ValidationErrorSerializer", calls[r][i].err)

\* C5 witness: an authenticated invocation ended as a validation failure.
C5_Witness ==
    \E r \in Reqs :
        /\ pc[r] = "ValidationError"
        /\ CallsOf(r, "Authenticate") # {}
        /\ \E i \in CallsOf(r, "Validate") : calls[r][i].err # Nil

\* C6: when Process returned (nil, nil), the only call after it is the
\* Serialize of the Not-Found Serializer with a non-nil error that no
\* collaborator returned, whether or not the Output type has Authorize.
C6_NotFound ==
    \A r \in Reqs : \A i \in CallsOf(r, "Process") :
        (calls[r][i].ret = Nil /\ calls[r][i].err = Nil) =>
            /\ CallsOf(r, "Authorize") = {}
            /\ Len(calls[r]) <= i + 1
            /\ Over(r) => Len(calls[r]) = i + 1 /\ pc[r] # "Panicked"
            /\ Len(calls[r]) = i + 1 =>
                   /\ calls[r][i + 1].op = "Serialize"
                   /\ calls[r][i + 1].on = m.NotFoundSerializer
                   /\ calls[r][i + 1].arg # Nil
                   /\ calls[r][i + 1].arg.kind = "error"
                   /\ \A j \in 1 .. i : calls[r][i + 1].arg # calls[r][j].err

\* C6 witness: not found, for a Processor whose Output type has Authorize.
C6_Witness ==
    \E r \in Reqs :
        /\ pc[r] = "NotFound"
        /\ \E i \in CallsOf(r, "Process") :
               calls[r][i].ret = Nil /\ calls[r][i].err = Nil /\ calls[r][i].typ

\* C7: when Process returned an error, whatever Output came with it, the
\* only call after it is the Serialize of the Processing-Error Serializer
\* with that error.
C7_ProcessingErrorStops ==
    \A r \in Reqs : \A i \in CallsOf(r, "Process") :
        calls[r][i].err # Nil =>
            /\ CallsOf(r, "Authorize") = {}
            /\ StopsWith(r, i, "ProcessingErrorSerializer", calls[r][i].err)

\* C7 witness: processing failures both with a nil and with a non-nil Output.
C7_Witness ==
    \E r1, r2 \in Reqs :
        /\ pc[r1] = "ProcessingError" /\ pc[r2] = "ProcessingError"
        /\ \E i \in CallsOf(r1, "Process") :
               calls[r1][i].ret = Nil /\ calls[r1][i].err # Nil
        /\ \E i \in CallsOf(r2, "Process") :
               calls[r2][i].ret # Nil /\ calls[r2][i].err # Nil

\* C8: when Process returned a non-nil Output with the method Authorize
\* (and no error), Authorize is called on it; if it returns an error the
\* only call after it is the Serialize of the Authorization-Error
\* Serializer with that error, and otherwise that of the Success Serializer
\* with the Output.
C8_Authorization ==
    \A r \in Reqs : \A i \in CallsOf(r, "Process") :
        (calls[r][i].ret # Nil /\ calls[r][i].err = Nil
            /\ calls[r][i].ret.authorizable) =>
            /\ Over(r) => CallsOf(r, "Authorize") = {i + 1}
            /\ \A j \in CallsOf(r, "Authorize") :
                   /\ j = i + 1
                   /\ calls[r][j].on = calls[r][i].ret
                   /\ IF calls[r][j].err # Nil
                      THEN StopsWith(r, j, "AuthorizationErrorSerializer",
                                     calls[r][j].err)
                      ELSE StopsWith(r, j, "SuccessSerializer", calls[r][i].ret)

\* C8 witness: one invocation denied, another authorized and served.
C8_Witness ==
    \E r1, r2 \in Reqs :
        /\ pc[r1] = "AuthzError" /\ pc[r2] = "Success"
        /\ CallsOf(r1, "Authorize") # {} /\ CallsOf(r2, "Authorize") # {}

\* C9: when Authenticate succeeded returning a, every Authorize call of the
\* same invocation is given a; there is at most one, and it is made on the
\* Output Process returned in that invocation.
C9_AuthContextForwarded ==
    \A r \in Reqs : \A i \in CallsOf(r, "Authenticate") :
        calls[r][i].err = Nil =>
            /\ Cardinality(CallsOf(r, "Authorize")) <= 1
            /\ \A j \in CallsOf(r, "Authorize") :
                   /\ calls[r][j].arg = calls[r][i].ret
                   /\ \A q \in Reqs \ {r} : \A k \in DOMAIN calls[q] :
                          calls[r][j].arg # Nil => calls[r][j].arg # calls[q][k].ret
                   /\ \E k \in CallsOf(r, "Process") :
                          calls[r][k].ret # Nil /\ calls[r][j].on = calls[r][k].ret

\* C9 witness: both invocations authorized, each with its own non-nil
\* AuthContext.
C9_Witness ==
    \A r \in Reqs :
        \E j \in CallsOf(r, "Authorize") :
            calls[r][j].arg # Nil /\ calls[r][j].arg = calls[r][1].ret

\* C10: the collaborator calls of an invocation occur in the order
\* Authenticate, Deserialize, Validate, Process, Authorize, Serialize, each
\* at most once, and none after the Serialize call.
C10_CallOrder ==
    \A r \in Reqs : \A i, j \in DOMAIN calls[r] :
        i < j => Rank(calls[r][i].op) < Rank(calls[r][j].op)

\* C10 witness: an invocation that made all six calls.
C10_Witness ==
    \E r \in Reqs :
        /\ Len(calls[r]) = 6
        /\ pc[r] \in {"AuthzError", "Success"}

\* C11: an invocation of ServeHTTP that can take no further step has ended
\* in one of the six outcomes Success, AuthnError, ValidationError,
\* ProcessingError, NotFound, AuthzError.
C11_EndsInSixOutcomes ==
    \A r \in Reqs :
        \/ pc[r] \in {"Success", "AuthnError", "ValidationError",
                      "ProcessingError", "NotFound", "AuthzError"}
        \/ ENABLED (Authenticate(r) \/ Deserialize(r) \/ Validate(r) \/ Process(r)
                    \/ CallGetAuthorizer(r) \/ Authorize(r) \/ Serialize(r))

\* C19: Process is given the Input that the one Deserialize call of the
\* invocation returned and on which Validate returned nil, and the call
\* that follows Deserialize is Validate on its result.
C19_ValidatedInput ==
    \A r \in Reqs :
        /\ Cardinality(CallsOf(r, "Deserialize")) <= 1
        /\ \A d \in CallsOf(r, "Deserialize") :
               /\ Over(r) => Len(calls[r]) > d
               /\ Len(calls[r]) > d =>
                      /\ calls[r][d + 1].op = "Validate"
                      /\ calls[r][d + 1].on = calls[r][d].ret
        /\ \A i \in CallsOf(r, "Process") :
               \E d \in CallsOf(r, "Deserialize") :
                   /\ calls[r][i].arg = calls[r][d].ret
                   /\ calls[r][i].arg # Nil
                   /\ i = d + 2
                   /\ calls[r][d + 1].op = "Validate"
                   /\ calls[r][d + 1].on = calls[r][i].arg
                   /\ calls[r][d + 1].err = Nil

\* C19 witness: Process was called in one invocation and, after a failed
\* validation, never in the other.
C19_Witness ==
    \E r1, r2 \in Reqs :
        /\ CallsOf(r1, "Process") # {}
        /\ pc[r2] = "ValidationError"

\* What the collaborators returned to invocation r, read off calls[r]; a
\* collaborator that was not called is taken to return nil.
ResultsOf(r) ==
    LET Of(op) == IF CallsOf(r, op) = {}
                  THEN Call(op, Nil, Nil, Nil, Nil, FALSE)
                  ELSE calls[r][CHOOSE i \in CallsOf(r, op) : TRUE]
    IN  [a |-> Of("Authenticate").ret, ae |-> Of("Authenticate").err,
         v |-> Of("Validate").err,
         o |-> Of("Process").ret, pe |-> Of("Process").err,
         typ |-> Of("Process").typ,
         ze |-> Of("Authorize").err]

\* The invocations whose values appear in v.
Owner(v) == IF "req" \in DOMAIN v THEN {v.req} ELSE {}

\* C12: no step of ServeHTTP changes a field of the handler, and an
\* invocation interleaved with others ends as it would on its own: the same
\* calls with the same values, the same response and the same outcome, and
\* no value of another invocation among them.
C12_Isolation ==
    /\ [][m' = m]_vars
    /\ [](\A r \in Reqs :
            /\ \A i \in DOMAIN calls[r] :
                   Owner(calls[r][i].on) \cup Owner(calls[r][i].arg)
                       \cup Owner(calls[r][i].ret) \cup Owner(calls[r][i].err)
                       \subseteq {r}
            /\ Over(r) =>
                   LET alone == ServeHTTPAlone(m, r, ResultsOf(r)) IN
                       /\ calls[r] = alone.calls
                       /\ w[r] = alone.w
                       /\ pc[r] = alone.pc)

\* C12 witness: two invocations, both over, each authorized with its own
\* AuthContext, one denied and one served.
C12_Witness ==
    \E r1, r2 \in Reqs :
        /\ pc[r1] = "AuthzError" /\ pc[r2] = "Success"
        /\ \E j \in CallsOf(r1, "Authorize") : calls[r1][j].arg # Nil
        /\ \E j \in CallsOf(r2, "Authorize") : calls[r2][j].arg # Nil

\* v with the invocation it belongs to left out.
Erase(v) == IF "req" \in DOMAIN v THEN [v EXCEPT !.req = 0] ELSE v

\* A call with the invocation left out of its values.
EraseCall(c) ==
    [op |-> c.op, on |-> Erase(c.on), arg |-> Erase(c.arg),
     ret |-> Erase(c.ret), err |-> Erase(c.err), typ |-> c.typ]

\* The collaborators acted as functions in invocations r1 and r2: the same
\* call on equivalent values returned equivalent results.
SameAnswers(r1, r2) ==
    \A i \in DOMAIN calls[r1], j \in DOMAIN calls[r2] :
        ( /\ calls[r1][i].op = calls[r2][j].op
          /\ Erase(calls[r1][i].on) = Erase(calls[r2][j].on)
          /\ Erase(calls[r1][i].arg) = Erase(calls[r2][j].arg) )
        => EraseCall(calls[r1][i]) = EraseCall(calls[r2][j])

\* C13: two invocations in which the collaborators gave the same answers
\* end in the same outcome, having invoked the same Serializer with
\* equivalent values (and made the same calls before it).
C13_Determinism ==
    \A r1, r2 \in Reqs :
        (Over(r1) /\ Over(r2) /\ SameAnswers(r1, r2)) =>
            /\ pc[r1] = pc[r2]
            /\ Len(calls[r1]) = Len(calls[r2])
            /\ \A i \in DOMAIN calls[r1] :
                   EraseCall(calls[r1][i]) = EraseCall(calls[r2][i])

\* C13 witness: two invocations with the same answers, both denied.
C13_Witness ==
    \E r1, r2 \in Reqs :
        /\ r1 # r2
        /\ pc[r1] = "AuthzError" /\ pc[r2] = "AuthzError"
        /\ SameAnswers(r1, r2)

\* C14: after NewJsonHandler all six Serializer slots of the handler are
\* non-nil, and every slot the caller left unset holds the JSON default of
\* its outcome: success 200, authentication 401, validation 400,
\* processing 500, not found 404, authorization 403.
C14_DefaultsFilled ==
    m # NoHandler =>
        LET Expected(slot) ==
                CASE slot = "SuccessSerializer" ->
                         [kind |-> "JsonSerializer", StatusCode |-> 200]
                  [] slot = "AuthenticationErrorSerializer" ->
                         [kind |-> "JsonErrorSerializer", StatusCode |-> 401,
                          Error |-> Nil]
                  [] slot = "ValidationErrorSerializer" ->
                         [kind |-> "JsonErrorSerializer", StatusCode |-> 400,
                          Error |-> Nil]
                  [] slot = "ProcessingErrorSerializer" ->
                         [kind |-> "JsonErrorSerializer", StatusCode |-> 500,
                          Error |-> Nil]
                  [] slot = "NotFoundSerializer" ->
                         [kind |-> "JsonErrorSerializer", StatusCode |-> 404,
                          Error |-> Nil]
                  [] slot = "AuthorizationErrorSerializer" ->
                         [kind |-> "JsonErrorSerializer", StatusCode |-> 403,
                          Error |-> Nil]
        IN  \A slot \in SerializerSlots :
                /\ m[slot] # Nil
                /\ base[slot] = Nil => m[slot] = Expected(slot)

\* C14 witness: a JsonHandler made from a BaseHandler with no Serializer.
C14_Witness ==
    /\ m # NoHandler
    /\ \A slot \in SerializerSlots : base[slot] = Nil

\* The BaseHandler with the collaborators of handler h.
AsBaseHandler(h) ==
    [Authenticator |-> h.Authenticator,
     Deserializer |-> h.Deserializer,
     Processor |-> h.Processor,
     SuccessSerializer |-> h.SuccessSerializer,
     AuthenticationErrorSerializer |-> h.AuthenticationErrorSerializer,
     ValidationErrorSerializer |-> h.ValidationErrorSerializer,
     ProcessingErrorSerializer |-> h.ProcessingErrorSerializer,
     NotFoundSerializer |-> h.NotFoundSerializer,
     AuthorizationErrorSerializer |-> h.AuthorizationErrorSerializer]

\* C15: the JsonHandler has the Authenticator, Deserializer, Processor and
\* every set Serializer of the BaseHandler it was made from; the caller's
\* BaseHandler never changes; once made, the handler is not changed by a
\* further setDefaults (nor by serving); and a request ends as it does with
\* a BaseHandler that has the same collaborators.
C15_Frame ==
    /\ [](m # NoHandler =>
            /\ m.Authenticator = base.Authenticator
            /\ m.Deserializer = base.Deserializer
            /\ m.Processor = base.Processor
            /\ \A slot \in SerializerSlots :
                   base[slot] # Nil => m[slot] = base[slot])
    /\ [][base' = base /\ (m # NoHandler => m' = m)]_vars
    /\ [](\A r \in Reqs :
            Over(r) =>
                LET alone == ServeHTTPAlone(AsBaseHandler(m), r, ResultsOf(r)) IN
                    /\ calls[r] = alone.calls
                    /\ w[r] = alone.w
                    /\ pc[r] = alone.pc)

\* C15 witness: a JsonHandler made from a BaseHandler with some slots set
\* and some not has served a request.
C15_Witness ==
    /\ m # NoHandler
    /\ \E s1, s2 \in SerializerSlots : base[s1] = Nil /\ base[s2] # Nil
    /\ \E r \in Reqs : pc[r] = "Success"

\* The response of a JSON serializer: the Content-Type, then the status
\* code, then the body.
JsonResponse(code, body) ==
    << [op |-> "Header.Set", key |-> "Content-Type", value |-> "application/json"],
       [op |-> "WriteHeader", code |-> code],
       [op |-> "Write", body |-> body] >>

\* {"error": str}
ErrorBody(str) ==
    [json |-> "object", members |-> [error |-> [json |-> "string", s |-> str]]]

\* C17: with the default serializer in the slot of its outcome, a request
\* that failed with a plain error of message msg is answered with the
\* status of the outcome (401, 400, 500, 404, 403) and the body
\* {"error": msg}; a Process failure "db down" with 500, {"error":"db down"}.
C17_DefaultErrorResponse ==
    \A r \in Reqs :
        (m # NoHandler /\ Over(r) /\ pc[r] \notin {"Panicked", "Success"}
            /\ base[ExpectedSlot(r)] = Nil) =>
            LET e == calls[r][Len(calls[r])].arg
                code == CASE pc[r] = "AuthnError" -> 401
                          [] pc[r] = "ValidationError" -> 400
                          [] pc[r] = "ProcessingError" -> 500
                          [] pc[r] = "NotFound" -> 404
                          [] pc[r] = "AuthzError" -> 403
            IN  /\ calls[r][Len(calls[r])].op = "Serialize"
                /\ e.kind = "error"
                /\ w[r] = JsonResponse(code, ErrorBody(ErrorString(e)))
                /\ pc[r] = "ProcessingError" =>
                       w[r] = JsonResponse(500, ErrorBody("db down"))

\* C17 witness: Process failed under the default processing-error
\* serializer and the response was written.
C17_Witness ==
    \E r \in Reqs :
        /\ m # NoHandler
        /\ base.ProcessingErrorSerializer = Nil
        /\ pc[r] = "ProcessingError"
        /\ Len(w[r]) = 3

\* C18: when the six Serializers of the handler are of the JSON family, the
\* response writer of a request that is over was told, in this order, the
\* Content-Type application/json, one status code, equal to the StatusCode
\* configured in the serializer of the outcome, and one body.
C18_OneJsonResponse ==
    \A r \in Reqs :
        (m # NoHandler /\ Over(r)
            /\ \A slot \in SerializerSlots :
                   m[slot].kind \in {"JsonSerializer", "JsonErrorSerializer",
                                     "JsonNotFoundSerializer"}) =>
            /\ Len(w[r]) = 3
            /\ w[r][1] = [op |-> "Header.Set", key |-> "Content-Type",
                          value |-> "application/json"]
            /\ w[r][2] = [op |-> "WriteHeader",
                          code |-> m[ExpectedSlot(r)].StatusCode]
            /\ w[r][3].op = "Write"

\* C16: a JsonErrorSerializer without Error override answers every value
\* with a body {"error": X}: X is the JSON encoding of the value when the
\* value encodes itself (an error that is a json.Marshaler, a value that is
\* no error), and the message of the error otherwise.
C16_ErrorEnvelope ==
    (direct # NoDirect /\ direct.j.kind = "JsonErrorSerializer"
        /\ direct.j.Error = Nil) =>
        \A i \in 1..Len(direct.responses) :
            LET o == direct.responses[i].out
                X == IF o.kind = "error" /\ o.origin # "json.Marshaler"
                     THEN [json |-> "string", s |-> ErrorString(o)]
                     ELSE Marshal(o)
            IN  direct.responses[i].w =
                    JsonResponse(direct.j.StatusCode,
                                 [json |-> "object", members |-> [error |-> X]])

\* C20: a JsonErrorSerializer with an Error override answers as it would
\* answer the override itself, whatever value it is handed; a
\* JsonNotFoundSerializer answers 404 {"error":"Not found"} whatever its
\* StatusCode, its Error and the value; and no Serialize call changes the
\* serializer value it was called on.
C20_Overrides ==
    /\ [](direct # NoDirect =>
            \A i \in 1..Len(direct.responses) :
                LET res == direct.responses[i] IN
                /\ (direct.j.kind = "JsonErrorSerializer" /\ direct.j.Error # Nil) =>
                       /\ res.w = JsonErrorSerializerSerialize(
                                      [direct.j EXCEPT !.Error = Nil], direct.j.Error)
                       /\ res.w = direct.responses[1].w
                       /\ (direct.j.Error.kind = "error"
                              /\ direct.j.Error.origin = "errors.New") =>
                              res.w = JsonResponse(direct.j.StatusCode,
                                                   ErrorBody(direct.j.Error.msg))
                /\ direct.j.kind = "JsonNotFoundSerializer" =>
                       res.w = JsonResponse(404, ErrorBody("Not found")))
    /\ [][direct # NoDirect => direct'.j = direct.j]_vars

\* C20 witness: a JsonNotFoundSerializer configured with another StatusCode
\* and an Error override has been called twice, with different values.
C20_Witness ==
    /\ direct # NoDirect
    /\ direct.j.kind = "JsonNotFoundSerializer"
    /\ direct.j.StatusCode # 404
    /\ direct.j.Error # Nil
    /\ Len(direct.responses) = 2
    /\ direct.responses[1].out # direct.responses[2].out

====
